---- MODULE Spec2Model ----
(***************************************************************************)
(* Model of spot_subaru.util.ltcs.Collisions (the laser-collision monitor) *)
(* and of the threads of the LTCS plugin that drive it.                    *)
(*                                                                         *)
(* Times are whole seconds since the epoch.  A Python string is a TLC      *)
(* string, except collisions_list, which is the sequence of the pieces the *)
(* code concatenates (so '' is << >>).  Python's None is the value None.   *)
(***************************************************************************)
EXTENDS Integers, Sequences, FiniteSets, TLC

\* ------------------------------------------------------------------------
\* Bounds of the model
\* ------------------------------------------------------------------------
\* rows in the three event tables together, in SpecReduce
MaxEvents == 3
\* rows in the three event tables together, in Spec
MaxDbRows == 1
\* number of worker-pool threads that can run LTCS.check_collisions
MaxWorkers == 2
\* rows in the three event tables together, in SpecCycles
MaxCycleRows == 2
\* rows in the three event tables together, in SpecEdges
MaxEdgeRows == 2
\* pairs of loops of SubaruOCS alive at once
MaxLoops == 2

\* ------------------------------------------------------------------------
\* Values
\* ------------------------------------------------------------------------
None == "None"
Engine == "engine"
NaS == -1          \* a start_time / end_time that float() cannot convert
T0 == 200000       \* the earlier of the two poll times
Times == {T0, T0 + 10}
Laser == "SUBARU"

ltcs_status_name_array ==
    <<"OPEN", "COLLISIONS", "PREDICTED", "DOWN", "ERROR", "UP">>

StatusName(code) == ltcs_status_name_array[code + 1]

\* stale_threshold_sec of the YAML configuration
StaleThreshold == 60

\* rows a query on an event table can return:
\*   <<laser, involved_scope, start_time, end_time, laser_has_priority>>
EventRows ==
    { <<Laser, "KECK1",  T0 - 10,    T0 + 10,    1>>,
      <<Laser, "GEMINI", T0 - 20,    T0 + 30,    0>>,
      <<Laser, "IRTF",   T0 + 3600,  T0 + 7200,  1>>,
      <<Laser, "CFHT",   T0 + 86400, T0 + 90000, 0>>,
      <<Laser, "UKIRT",  T0 - 100,   T0 - 50,    1>>,
      <<Laser, None,     T0 + 10,    T0 + 20,    0>>,
      <<Laser, "KECK2",  NaS,        T0 + 40,    1>> }

\* rows of system_health: <<component, timestamp>>
HealthRows == { <<"ltcs_collector", T0 - 5>>, <<"ltcs_collector", T0 - 1000>> }

\* ORDER BY start_time
RECURSIVE IsOrdered(_)
IsOrdered(rows) ==
    IF Len(rows) < 2 THEN TRUE
    ELSE rows[1][3] <= rows[2][3] /\ IsOrdered(Tail(rows))

\* the rows whose times float() converts
NumericRows == { r \in EventRows : r[3] # NaS /\ r[4] # NaS }

\* the results of a query that returns k of the given rows
EventTables(rows, k) == { t \in [1..k -> rows] : IsOrdered(t) }

\* the contents of the LTCS database, one entry per key of query_dct1,
\* with n rows in the three event tables together
DatabasesOfSize(rows, n) ==
    UNION { { [sys_health |-> h, collisions |-> c, sim_predict |-> s,
               predict |-> p] :
                 h \in { <<r>> : r \in HealthRows },
                 c \in EventTables(rows, a),
                 s \in EventTables(rows, b),
                 p \in EventTables(rows, n - a - b) } :
            <<a, b>> \in { x \in (0..n) \X (0..n) : x[1] + x[2] <= n } }

Databases(rows, max) == UNION { DatabasesOfSize(rows, n) : n \in 0..max }

QueryKeys == <<"sys_health", "collisions", "sim_predict", "predict">>

\* what can go wrong with the database during one poll
Faults == {"none", "connect", "sys_health", "collisions", "sim_predict", "predict"}

StatusFields ==
    {"remain_str", "remain_sec", "impact", "collisions_str",
     "collisions_list_str", "collisions_status", "ltcs_collisions",
     "ltcs_status", "ltcs_status_str", "ok_collisions"}

\* ------------------------------------------------------------------------
\* Python arithmetic and formatting
\* ------------------------------------------------------------------------
\* int(a / b) truncates towards zero
TruncDiv(a, b) == IF a >= 0 THEN a \div b ELSE -((-a) \div b)

\* f"{n:02d}"
Pad2(n) == IF n >= 0 /\ n < 10 THEN "0" \o ToString(n) ELSE ToString(n)

\* datetime.fromtimestamp(sse).strftime('%H:%M'), site clock taken as UTC
StrfHM(sse) == Pad2((sse \div 3600) % 24) \o ":" \o Pad2((sse \div 60) % 60)

\* lines 302-305: divmod twice, then HH:MM:SS
FormatRemain(remain) ==
    LET th == remain \div 3600
        rem == remain % 3600
        tm == rem \div 60
        ts == rem % 60
    IN  Pad2(th) \o ":" \o Pad2(tm) \o ":" \o Pad2(ts)

\* ------------------------------------------------------------------------
\* The Collisions object.  The operators below take the object's fields as
\* the record self and return the record after the method has run.
\* ------------------------------------------------------------------------
\* the Bunch built by __init__
InitialStatus ==
    [remain_str |-> "", remain_sec |-> 0, impact |-> "",
     collisions_str |-> "", collisions_list_str |-> << >>,
     collisions_status |-> "DOWN", ltcs_collisions |-> << >>,
     ltcs_status |-> 3, ltcs_status_str |-> "DOWN", ok_collisions |-> FALSE]

\* the attributes set by __init__
InitialSelf ==
    [ltcs_status |-> 4, ltcs_status_str |-> StatusName(4),
     ltcs_list_collisions |-> << >>, ok_collisions |-> FALSE,
     _conn |-> None, status |-> InitialStatus]

\* Bunch.update(upd): the keys of upd are overwritten, the others are kept
status_update(status, upd) ==
    [f \in StatusFields |-> IF f \in DOMAIN upd THEN upd[f] ELSE status[f]]

\* connect_db: _conn is cleared first, then set unless create_engine raises
connect_db(self, fault) ==
    IF fault = "connect"
    THEN [self |-> [self EXCEPT !._conn = None], raised |-> TRUE]
    ELSE [self |-> [self EXCEPT !._conn = Engine], raised |-> FALSE]

disconnect_db(self) ==
    IF self._conn # None THEN [self EXCEPT !._conn = None] ELSE self

\* fetch_ltcs: connect when there is no connection, then run the four
\* queries in the order of query_dct1; the first failure is re-raised
fetch_ltcs(self, database, fault) ==
    LET need == self._conn = None
        c == IF need THEN connect_db(self, fault)
             ELSE [self |-> self, raised |-> FALSE]
    IN  IF c.raised
        THEN [self |-> c.self, raised |-> TRUE, cause |-> "connect_error",
              q_res |-> << >>, connect_called |-> need]
        ELSE IF \E i \in 1..Len(QueryKeys) : QueryKeys[i] = fault
        THEN [self |-> c.self, raised |-> TRUE, cause |-> "query_error",
              q_res |-> << >>, connect_called |-> need]
        ELSE [self |-> c.self, raised |-> FALSE, cause |-> "none",
              q_res |-> database, connect_called |-> need]

\* variant: the commented-out assignment of DOWN on stale health rows
StaleStatusDown == 3

\* the else branch of check_ltcs_proc: the assignment of DOWN is commented out
StaleStatus == 5

check_ltcs_proc(self, current_sse, q_res, stale_threshold_sec) ==
    LET ok_ltcs == \A i \in 1..Len(q_res) :
                      ~(current_sse - q_res[i][2] > stale_threshold_sec)
    IN  IF ok_ltcs
        THEN [self EXCEPT !.ltcs_status = 5, !.ltcs_status_str = StatusName(5)]
        ELSE [self EXCEPT !.ltcs_status = StaleStatus,
                          !.ltcs_status_str = StatusName(StaleStatus)]

\* coll_event(time_start, time_end, involved_scope, laser_has_priority)
coll_event(r) ==
    [time_start_sse |-> r[3], time_stop_sse |-> r[4],
     telescope_str |-> r[2], laser_has_priority |-> (r[5] = 1)]

\* add_ltcs_collisions: rows are appended one by one; float() of a value
\* that is not a number raises and leaves the rows appended so far
RECURSIVE add_ltcs_collisions(_, _)
add_ltcs_collisions(self, q_res) ==
    IF q_res = << >> THEN [self |-> self, raised |-> FALSE]
    ELSE LET r == Head(q_res)
         IN  IF r[3] = NaS \/ r[4] = NaS
             THEN [self |-> self, raised |-> TRUE]
             ELSE add_ltcs_collisions(
                      [self EXCEPT !.ltcs_list_collisions =
                                        Append(@, coll_event(r))],
                      Tail(q_res))

check_ltcs(self, current_sse, q_res) ==
    LET s1 == check_ltcs_proc(self, current_sse, q_res.sys_health,
                              StaleThreshold)
        a1 == add_ltcs_collisions(s1, q_res.collisions)
        a2 == add_ltcs_collisions(a1.self, q_res.sim_predict)
        a3 == add_ltcs_collisions(a2.self, q_res.predict)
    IN  IF s1.ltcs_status # 5 THEN [self |-> s1, raised |-> FALSE]
        ELSE IF a1.raised THEN a1
        ELSE IF a2.raised THEN a2
        ELSE a3

\* ------------------------------------------------------------------------
\* check_collisions: the reduction of the working list to one status
\* ------------------------------------------------------------------------
Year == 365 * 24 * 3600
Day == 24 * 3600

\* variant: a gap of exactly 24 h counts as well
in_next_day_incl(collisions_remain) ==
    collisions_remain > 0 /\ collisions_remain <= Day

\* lines 290 and 301: a gap that is positive and under 24 h
in_next_day(collisions_remain) ==
    collisions_remain > 0 /\ collisions_remain < Day

\* variant: every retained event replaces the start time, earliest or not
next_coll_last(acc, curr_coll, current_sse) ==
    IF curr_coll.time_stop_sse > current_sse
    THEN [acc EXCEPT !.collisions_start_min = curr_coll.time_start_sse,
                     !.collisions_impact = curr_coll.telescope_str]
    ELSE acc

\* lines 265-267: is this the next collision?
next_coll(acc, curr_coll, current_sse) ==
    IF curr_coll.time_start_sse < acc.collisions_start_min
       /\ curr_coll.time_stop_sse > current_sse
    THEN [acc EXCEPT !.collisions_start_min = curr_coll.time_start_sse,
                     !.collisions_impact = curr_coll.telescope_str]
    ELSE acc

\* variant: every overlapping event replaces the stop time, longest or not
within_coll_last(acc, curr_coll, current_sse) ==
    IF curr_coll.time_start_sse <= current_sse
       /\ curr_coll.time_stop_sse >= current_sse
    THEN [acc EXCEPT !.within_coll = TRUE,
                     !.collisions_end_max = curr_coll.time_stop_sse,
                     !.collisions_impact = curr_coll.telescope_str]
    ELSE acc

\* lines 270-276: within a collision, and is it the longest one?
within_coll(acc, curr_coll, current_sse) ==
    IF curr_coll.time_start_sse <= current_sse
       /\ curr_coll.time_stop_sse >= current_sse
    THEN IF curr_coll.time_stop_sse > acc.collisions_end_max
         THEN [acc EXCEPT !.within_coll = TRUE,
                          !.collisions_end_max = curr_coll.time_stop_sse,
                          !.collisions_impact = curr_coll.telescope_str]
         ELSE [acc EXCEPT !.within_coll = TRUE]
    ELSE acc

\* lines 254-262: the entry of the human-readable list
list_entry(curr_coll) ==
    StrfHM(curr_coll.time_start_sse) \o " -> "
        \o StrfHM(curr_coll.time_stop_sse) \o " = "
        \o ToString(TruncDiv(curr_coll.time_stop_sse
                             - curr_coll.time_start_sse, 60))
        \o "min"

\* variant: the separator is written before the first entry as well
scan_coll_sep_first(acc, curr_coll, current_sse) ==
    IF curr_coll.time_stop_sse > current_sse
    THEN LET a1 == [acc EXCEPT
                      !.n = @ + 1,
                      !.collisions_list =
                          @ \o <<" // ", list_entry(curr_coll)>>]
         IN  within_coll(next_coll(a1, curr_coll, current_sse),
                         curr_coll, current_sse)
    ELSE acc

\* variant: an event that stops at the poll time is not in the past yet
scan_coll_closed(acc, curr_coll, current_sse) ==
    IF curr_coll.time_stop_sse >= current_sse
    THEN LET a1 == [acc EXCEPT
                      !.n = @ + 1,
                      !.collisions_list =
                          IF acc.n + 1 > 1
                          THEN @ \o <<" // ", list_entry(curr_coll)>>
                          ELSE @ \o <<list_entry(curr_coll)>>]
         IN  within_coll(next_coll(a1, curr_coll, current_sse),
                         curr_coll, current_sse)
    ELSE acc

\* lines 252-276: the body of the loop over ltcs_list_collisions
scan_coll(acc, curr_coll, current_sse) ==
    IF curr_coll.time_stop_sse > current_sse
    THEN LET a1 == [acc EXCEPT
                      !.n = @ + 1,
                      !.collisions_list =
                          IF acc.n + 1 > 1
                          THEN @ \o <<" // ", list_entry(curr_coll)>>
                          ELSE @ \o <<list_entry(curr_coll)>>]
         IN  within_coll(next_coll(a1, curr_coll, current_sse),
                         curr_coll, current_sse)
    ELSE acc

RECURSIVE scan_list(_, _, _)
scan_list(acc, colls, current_sse) ==
    IF colls = << >> THEN acc
    ELSE scan_list(scan_coll(acc, Head(colls), current_sse),
                   Tail(colls), current_sse)

\* lines 244-249: the loop variables before the first event
scan_init(current_sse) ==
    [n |-> 0, collisions_list |-> << >>,
     collisions_start_min |-> current_sse + Year,
     collisions_end_max |-> current_sse - Year,
     collisions_impact |-> "", within_coll |-> FALSE]

\* lines 278-299: the branch taken after the loop
after_scan(self, acc, current_sse) ==
    IF acc.within_coll
    THEN [self |-> [self EXCEPT !.ok_collisions = FALSE, !.ltcs_status = 1,
                                !.ltcs_status_str = StatusName(1)],
          collisions_remain |-> acc.collisions_end_max - current_sse,
          collisions_str |-> " until ",
          collisions_list |-> acc.collisions_list]
    ELSE IF in_next_day(acc.collisions_start_min - current_sse)
    THEN [self |-> [self EXCEPT !.ok_collisions = TRUE, !.ltcs_status = 2,
                                !.ltcs_status_str = StatusName(2)],
          collisions_remain |-> acc.collisions_start_min - current_sse,
          collisions_str |-> " in ",
          collisions_list |-> acc.collisions_list]
    ELSE [self |-> [self EXCEPT !.ok_collisions = TRUE, !.ltcs_status = 0,
                                !.ltcs_status_str = StatusName(0)],
          collisions_remain |-> acc.collisions_start_min - current_sse,
          collisions_str |-> "",
          collisions_list |-> << >>]

\* lines 225-312: the attributes of self and the local variables when
\* status.update is reached; raised when line 306 concatenates None
reduce_colls(self, current_sse) ==
    LET acc == scan_list(scan_init(current_sse), self.ltcs_list_collisions,
                         current_sse)
        b == after_scan(self, acc, current_sse)
    IN  IF self.ltcs_status = 3
        THEN [self |-> [self EXCEPT !.ltcs_status_str = StatusName(3),
                                    !.ok_collisions = FALSE],
              raised |-> FALSE,
              collisions_remain |-> current_sse + Year,
              collisions_remain_str |-> "", collisions_str |-> "",
              collisions_list |-> << >>, collisions_impact |-> ""]
        ELSE IF Len(self.ltcs_list_collisions) = 0
        THEN [self |-> [self EXCEPT !.ok_collisions = TRUE,
                                    !.ltcs_status = 0,
                                    !.ltcs_status_str = StatusName(0)],
              raised |-> FALSE,
              collisions_remain |-> current_sse + Year,
              collisions_remain_str |-> "", collisions_str |-> "",
              collisions_list |-> << >>, collisions_impact |-> ""]
        ELSE IF in_next_day(b.collisions_remain)
        THEN [self |-> b.self,
              raised |-> acc.collisions_impact = None,
              collisions_remain |-> b.collisions_remain,
              collisions_remain_str |-> FormatRemain(b.collisions_remain),
              collisions_str |->
                  IF acc.collisions_impact = None THEN b.collisions_str
                  ELSE b.collisions_str \o FormatRemain(b.collisions_remain)
                           \o " with " \o acc.collisions_impact,
              collisions_list |-> b.collisions_list,
              collisions_impact |-> acc.collisions_impact]
        ELSE [self |-> b.self,
              raised |-> FALSE,
              collisions_remain |-> b.collisions_remain,
              collisions_remain_str |-> "",
              collisions_str |-> "",
              collisions_list |-> b.collisions_list,
              collisions_impact |-> acc.collisions_impact]

\* lines 315-324: the dict handed to status.update
status_dict(r) ==
    [remain_str |-> r.collisions_remain_str,
     remain_sec |-> r.collisions_remain,
     impact |-> r.collisions_impact,
     collisions_str |-> r.collisions_str,
     collisions_list_str |-> r.collisions_list,
     collisions_status |-> r.self.ltcs_status_str,
     ltcs_collisions |-> r.self.ltcs_list_collisions,
     ltcs_status |-> r.self.ltcs_status,
     ltcs_status_str |-> r.self.ltcs_status_str,
     ok_collisions |-> r.self.ok_collisions]

check_collisions(self, current_sse) ==
    LET r == reduce_colls(self, current_sse)
    IN  IF r.raised
        THEN [self |-> r.self, raised |-> TRUE, written |-> {}]
        ELSE [self |-> [r.self EXCEPT
                           !.status = status_update(@, status_dict(r))],
              raised |-> FALSE, written |-> DOMAIN status_dict(r)]

\* lines 342-351: the handler of an error in fetch_ltcs or check_ltcs
error_dict(self) ==
    [ltcs_status |-> self.ltcs_status,
     ltcs_status_str |-> self.ltcs_status_str,
     ok_collisions |-> FALSE]

\* variant: the handler publishes self.ok_collisions instead of False
update_except_keeps_ok(self) ==
    LET s1 == [self EXCEPT !.ltcs_status = 4,
                           !.ltcs_status_str = StatusName(4)]
    IN  [self |-> [s1 EXCEPT !.status = status_update(@,
                      [error_dict(s1) EXCEPT
                          !.ok_collisions = self.ok_collisions])],
         raised |-> FALSE]

\* variant: the handler publishes self.ltcs_status as check_ltcs left it
update_except_keeps_status(self) ==
    [self |-> [self EXCEPT !.status = status_update(@, error_dict(self))],
     raised |-> FALSE]

update_except(self) ==
    LET s1 == [self EXCEPT !.ltcs_status = 4,
                           !.ltcs_status_str = StatusName(4)]
    IN  [self |-> [s1 EXCEPT !.status = status_update(@, error_dict(s1))],
         raised |-> FALSE]

\* variant: the handler of an error in check_collisions publishes ERROR
reduce_except_publishes(self) == update_except(self)

\* lines 356-358: the handler of an error in check_collisions only logs
reduce_except(self) == [self |-> self, raised |-> FALSE]

\* variant: the working list is not emptied at the start of the cycle
update_try_keeps_list(self, time_sse, database, fault) ==
    LET f == fetch_ltcs(self, database, fault)
        s1 == [f.self EXCEPT !.ltcs_status = 3,
                             !.ltcs_status_str = StatusName(3)]
        c == check_ltcs(s1, time_sse, f.q_res)
    IN  IF f.raised
        THEN [self |-> f.self, raised |-> TRUE, cause |-> f.cause,
              connect_called |-> f.connect_called]
        ELSE [self |-> c.self, raised |-> c.raised,
              cause |-> IF c.raised THEN "row_error" ELSE "none",
              connect_called |-> f.connect_called]

\* lines 332-340: the first try block
update_try(self, time_sse, database, fault) ==
    LET s0 == [self EXCEPT !.ltcs_list_collisions = << >>]
        f == fetch_ltcs(s0, database, fault)
        s1 == [f.self EXCEPT !.ltcs_status = 3,
                             !.ltcs_status_str = StatusName(3)]
        c == check_ltcs(s1, time_sse, f.q_res)
    IN  IF f.raised
        THEN [self |-> f.self, raised |-> TRUE, cause |-> f.cause,
              connect_called |-> f.connect_called]
        ELSE [self |-> c.self, raised |-> c.raised,
              cause |-> IF c.raised THEN "row_error" ELSE "none",
              connect_called |-> f.connect_called]

\* Collisions.update(dt) as one call; returned is "normal" when no exception
\* leaves the method
update(self, time_sse, database, fault) ==
    LET t == update_try(self, time_sse, database, fault)
        h == update_except(t.self)
        r == check_collisions(t.self, time_sse)
        g == reduce_except(r.self)
    IN  IF t.raised
        THEN [self |-> h.self, outcome |-> t.cause,
              connect_called |-> t.connect_called,
              written |-> DOMAIN error_dict(t.self),
              returned |-> IF h.raised THEN "raised" ELSE "normal"]
        ELSE IF r.raised
        THEN [self |-> g.self, outcome |-> "reduce_error",
              connect_called |-> t.connect_called,
              written |-> r.written,
              returned |-> IF g.raised THEN "raised" ELSE "normal"]
        ELSE [self |-> r.self, outcome |-> "ok",
              connect_called |-> t.connect_called,
              written |-> r.written, returned |-> "normal"]

\* get_status: a copy of the Bunch
get_status(self) == self.status

\* ------------------------------------------------------------------------
\* State
\* ------------------------------------------------------------------------
VARIABLES
    \* attributes of the Collisions object
    ltcs_status, ltcs_status_str, ltcs_list_collisions, ok_collisions,
    _conn, status,
    \* the environment: the tables of the LTCS database and the site time
    db, now,
    \* history of the polls: how the latest poll and the one before it ended,
    \* whether the latest called connect_db, how it returned, its time and
    \* its query results, and for each key of status whether its value was
    \* written by the constructor ("init"), by the latest poll ("latest") or
    \* by an earlier one ("earlier")
    last_outcome, prev_outcome, connect_called, update_returned,
    last_time, last_q_res, field_from,
    \* status.ltcs_status as it was when the latest poll was called
    prev_status,
    \* the threads: the owner of self._lock, where each thread is, the local
    \* variables of each worker inside update, the callbacks queued for the
    \* GUI thread, the copy get_status returned last, what was known when
    \* get_status was called, and the snapshot as the last completed update
    \* left it
    _lock, pc, local, gui_calls, ret, gs_call, published,
    \* attributes of the LTCS plugin: gui_up, dt_utc and _last_update_dt;
    \* whether build_gui has added time_changed_cb to the time-changed
    \* callbacks; the tasks handed to nongui_do and to gui_do and not yet
    \* run; what the visibility plot got from set_collisions; the text of
    \* the two labels
    gui_up, dt_utc, _last_update_dt, time_cb, pool_queue, gui_queue,
    visplot_collisions, col_status, col_time_countdown,
    \* history of the plugin: which thread has run which function, the
    \* times of the callbacks that scheduled the last two polls, and what
    \* the latest time_changed_cb found and did
    exec_log, sched, last_cb,
    \* the SubaruOCS plugin: the Event ev_quit, the local status items and
    \* what was pushed to the site object; and for each pair of loops that
    \* start() has begun: where consume_stream is, the number of envelopes
    \* in its status_q, and the seconds its latest get has waited
    ev_quit, ocs_status, site_status, loop_pc, status_q, waited,
    \* the RotCalc plugin: gui_up, the 'Follow telescope' checkbox, the
    \* target the pointing fields show, dt_utc and cur_tz, the rotator
    \* limits, tbl_dct, the rows the table widget shows, time_str, the
    \* message the latest callback has shown with show_error, _cur_target
    rot_gui_up, follow_telescope, pointing, rot_dt_utc, cur_tz,
    rot_limit_deg, tbl_dct, rot_tbl, time_str, fv_error, _cur_target,
    \* history of RotCalc: what the latest calc_rotations_cb met and did,
    \* the labels of the invocations that have completed on this table,
    \* and, when the latest callback was telpos_changed_cb, what it was
    \* called with and what the pointing fields showed before
    last_calc, completed, last_telpos

collVars == <<ltcs_status, ltcs_status_str, ltcs_list_collisions,
              ok_collisions, _conn, status>>
envVars == <<db, now>>
histVars == <<last_outcome, prev_outcome, connect_called, update_returned,
              last_time, last_q_res, field_from, prev_status>>
concVars == <<_lock, pc, local, gui_calls, ret, gs_call, published>>
ltcsVars == <<gui_up, dt_utc, _last_update_dt, time_cb, pool_queue,
              gui_queue, visplot_collisions, col_status,
              col_time_countdown, exec_log, sched, last_cb>>
ocsVars == <<ev_quit, ocs_status, site_status, loop_pc, status_q, waited>>
rotVars == <<rot_gui_up, follow_telescope, pointing, rot_dt_utc, cur_tz,
             rot_limit_deg, tbl_dct, rot_tbl, time_str, fv_error,
             _cur_target, last_calc, completed, last_telpos>>
\* the variables of the plugins other than LTCS
otherVars == <<ocsVars, rotVars>>
plugVars == <<ltcsVars, otherVars>>
vars == <<collVars, envVars, histVars, concVars, plugVars>>

Self ==
    [ltcs_status |-> ltcs_status, ltcs_status_str |-> ltcs_status_str,
     ltcs_list_collisions |-> ltcs_list_collisions,
     ok_collisions |-> ok_collisions, _conn |-> _conn, status |-> status]

SetSelf(s) ==
    /\ ltcs_status' = s.ltcs_status
    /\ ltcs_status_str' = s.ltcs_status_str
    /\ ltcs_list_collisions' = s.ltcs_list_collisions
    /\ ok_collisions' = s.ok_collisions
    /\ _conn' = s._conn
    /\ status' = s.status

NoRows == [sys_health |-> << >>, collisions |-> << >>,
           sim_predict |-> << >>, predict |-> << >>]

\* the history after the poll u = update(...)
Recorded(u, time_sse, database) ==
    /\ prev_outcome' = last_outcome
    /\ last_outcome' = u.outcome
    /\ connect_called' = u.connect_called
    /\ update_returned' = u.returned
    /\ last_time' = time_sse
    /\ last_q_res' = IF u.outcome \in {"connect_error", "query_error"}
                     THEN NoRows ELSE database
    /\ field_from' = [f \in StatusFields |->
                        IF f \in u.written THEN "latest"
                        ELSE IF field_from[f] = "latest" THEN "earlier"
                        ELSE field_from[f]]
    /\ prev_status' = status.ltcs_status

InitColl ==
    /\ ltcs_status = InitialSelf.ltcs_status
    /\ ltcs_status_str = InitialSelf.ltcs_status_str
    /\ ltcs_list_collisions = InitialSelf.ltcs_list_collisions
    /\ ok_collisions = InitialSelf.ok_collisions
    /\ _conn = InitialSelf._conn
    /\ status = InitialSelf.status

InitHist ==
    /\ last_outcome = "none"
    /\ prev_outcome = "none"
    /\ connect_called = FALSE
    /\ update_returned = "normal"
    /\ last_time = 0
    /\ last_q_res = NoRows
    /\ field_from = [f \in StatusFields |-> "init"]
    /\ prev_status = InitialStatus.ltcs_status

\* the threads of the LTCS plugin: the GUI thread and the worker pool
Gui == "gui"
Workers == { "worker" \o ToString(i) : i \in 1..MaxWorkers }
Threads == {Gui} \cup Workers

NoLocals == [time_sse |-> 0, q_res |-> NoRows, pending |-> << >>,
             keys |-> << >>]

\* get_status has not returned yet, has not been called yet
NoCopy == [returned |-> FALSE, snap |-> InitialStatus,
           before |-> InitialStatus, after |-> InitialStatus]
NoCall == [called |-> FALSE, during_update |-> FALSE,
           published |-> InitialStatus]

InitConc ==
    /\ _lock = None
    /\ pc = [t \in Threads |-> "idle"]
    /\ local = [w \in Workers |-> NoLocals]
    /\ gui_calls = 0
    /\ ret = NoCopy
    /\ gs_call = NoCall
    /\ published = InitialStatus

\* no callback has run yet
NoCallback == [called |-> FALSE, first |-> FALSE, within |-> FALSE,
               gui_up |-> FALSE, scheduled |-> FALSE]

\* LTCS.__init__.  A value that can be None is << >> for None and <<v>>
\* for the value v.
InitLtcs ==
    /\ gui_up = FALSE
    /\ dt_utc = << >>
    /\ _last_update_dt = << >>
    /\ time_cb = FALSE
    /\ pool_queue = << >>
    /\ gui_queue = << >>
    /\ visplot_collisions = << >>
    /\ col_status = ""
    /\ col_time_countdown = ""
    /\ exec_log = {}
    /\ sched = << >>
    /\ last_cb = NoCallback

\* start() has begun at most MaxLoops pairs of loops that have not ended
Loops == 1..MaxLoops

\* the items of status_dict the model follows: STATS.AZ_DEG and
\* STATL.TELDRIVE
NoStatus == [az_deg |-> << >>, teldrive |-> None]

\* SubaruOCS.__init__; the site object has no status from the plugin yet
InitOcs ==
    /\ ev_quit = FALSE
    /\ ocs_status = NoStatus
    /\ site_status = << >>
    /\ loop_pc = [i \in Loops |-> "none"]
    /\ status_q = [i \in Loops |-> 0]
    /\ waited = [i \in Loops |-> 0]

\* angles are in tenths of a degree; the default rotator limits
DefaultRotLimits == <<-2700, 2700>>

\* no calc_rotations_cb yet; rot_fits and az_fits tell of the candidates
\* an invocation has obtained whether one of them lay within the limits,
\* and res is what calc_possible_rotations gave it
NoCalc == [done |-> "none", row |-> << >>, rot_fits |-> TRUE,
           az_fits |-> TRUE, res |-> << >>]

\* the latest callback was not telpos_changed_cb
NoTelpos == [called |-> FALSE, follows |-> FALSE, target |-> None,
             before |-> ""]

\* RotCalc.__init__
InitRot ==
    /\ rot_gui_up = FALSE
    /\ follow_telescope = FALSE
    /\ pointing = ""
    /\ rot_dt_utc = << >>
    /\ cur_tz = << >>
    /\ rot_limit_deg = DefaultRotLimits
    /\ tbl_dct = {}
    /\ rot_tbl = {}
    /\ time_str = << >>
    /\ fv_error = ""
    /\ _cur_target = None
    /\ last_calc = NoCalc
    /\ completed = {}
    /\ last_telpos = NoTelpos

InitPlugins == InitLtcs /\ InitOcs /\ InitRot

\* a constructed monitor, a database with a few rows, a site time
Init ==
    /\ InitColl
    /\ db \in Databases(EventRows, MaxDbRows)
    /\ now \in Times
    /\ InitHist
    /\ InitConc
    /\ InitPlugins

\* ------------------------------------------------------------------------
\* Actions: each call runs to completion
\* ------------------------------------------------------------------------
\* Collisions.update(dt) with dt the site time
Poll(fault) ==
    LET u == update(Self, now, db, fault)
    IN  /\ SetSelf(u.self)
        /\ Recorded(u, now, db)
        /\ UNCHANGED <<plugVars, envVars, concVars>>

\* LTCS.start: connect_db
Connect(fault) ==
    /\ SetSelf(connect_db(Self, fault).self)
    /\ UNCHANGED <<plugVars, envVars, histVars, concVars>>

\* LTCS.stop: set_collisions(None), disconnect_db, gui_up = False
Disconnect ==
    /\ _conn # None \/ gui_up \/ visplot_collisions # << >>
    /\ visplot_collisions' = << >>
    /\ SetSelf(disconnect_db(Self))
    /\ gui_up' = FALSE
    /\ UNCHANGED <<dt_utc, _last_update_dt, time_cb, pool_queue, gui_queue,
                   col_status, col_time_countdown, exec_log, sched, last_cb>>
    /\ UNCHANGED <<envVars, histVars, concVars>>
    /\ UNCHANGED otherVars

\* the site time advances
Tick ==
    /\ now = T0
    /\ now' = T0 + 10
    /\ UNCHANGED <<plugVars, collVars, db, histVars, concVars>>

\* the LTCS removes the first row of one of its event tables
Expire(k) ==
    /\ db[k] # << >>
    /\ db' = [db EXCEPT ![k] = Tail(@)]
    /\ UNCHANGED <<plugVars, collVars, now, histVars, concVars>>

Next ==
    \/ \E fault \in Faults : Poll(fault)
    \/ \E fault \in {"none", "connect"} : Connect(fault)
    \/ Disconnect
    \/ Tick
    \/ \E k \in {"collisions", "sim_predict", "predict"} : Expire(k)

Spec == Init /\ [][Next]_vars

\* ------------------------------------------------------------------------
\* The reduction on its own: the query results are drawn from all databases
\* of up to MaxEvents convertible rows and polled at either time
\* ------------------------------------------------------------------------
InitReduce ==
    /\ InitColl
    /\ db \in Databases(NumericRows, MaxEvents)
    /\ now \in Times
    /\ InitHist
    /\ InitConc
    /\ InitPlugins

NextReduce ==
    \/ Poll("none")
    \/ Tick

SpecReduce == InitReduce /\ [][NextReduce]_vars

\* ------------------------------------------------------------------------
\* Successive cycles: the tables hold up to MaxCycleRows rows of three kinds
\* (containing T0, fully past, and an hour ahead), rows leave the tables
\* between polls, and a poll can fail at its last query
\* ------------------------------------------------------------------------
CycleRows ==
    { r \in EventRows : r[2] \in {"KECK1", "UKIRT", "IRTF"} }

InitCycles ==
    /\ InitColl
    /\ db \in Databases(CycleRows, MaxCycleRows)
    /\ now \in Times
    /\ InitHist
    /\ InitConc
    /\ InitPlugins

NextCycles ==
    \/ \E fault \in {"none", "predict"} : Poll(fault)
    \/ Tick
    \/ \E k \in {"collisions", "sim_predict", "predict"} : Expire(k)

SpecCycles == InitCycles /\ [][NextCycles]_vars

\* ------------------------------------------------------------------------
\* The edges of the reduction: an event that starts at the first poll time
\* and stops at the second, a collision that lasts more than a day, two
\* overlapping events of which the one that starts later stops later, and
\* an event an hour ahead
\* ------------------------------------------------------------------------
EdgeRows ==
    { <<Laser, "KECK2",  T0,        T0 + 10,    1>>,
      <<Laser, "GEMINI", T0 - 20,   T0 + 90000, 0>>,
      <<Laser, "CFHT",   T0 - 5,    T0 + 20,    0>>,
      <<Laser, "KECK1",  T0 - 10,   T0 + 10,    1>>,
      <<Laser, "IRTF",   T0 + 3600, T0 + 7200,  1>> }

InitEdges ==
    /\ InitColl
    /\ db \in Databases(EdgeRows, MaxEdgeRows)
    /\ now \in Times
    /\ InitHist
    /\ InitConc
    /\ InitPlugins

NextEdges ==
    \/ Poll("none")
    \/ Tick

SpecEdges == InitEdges /\ [][NextEdges]_vars

\* ------------------------------------------------------------------------
\* Properties of one poll
\* ------------------------------------------------------------------------
RECURSIVE EventsOf(_)
EventsOf(rows) ==
    IF rows = << >> THEN << >>
    ELSE <<[time_start_sse |-> Head(rows)[3], time_stop_sse |-> Head(rows)[4],
            telescope_str |-> Head(rows)[2],
            laser_has_priority |-> (Head(rows)[5] = 1)]>>
         \o EventsOf(Tail(rows))

\* the events the three event queries of the latest poll returned
LastEvents ==
    EventsOf(last_q_res.collisions) \o EventsOf(last_q_res.sim_predict)
        \o EventsOf(last_q_res.predict)

\* the events not fully past at t, and those of them that contain t
Retained(evs, t) == { i \in 1..Len(evs) : evs[i].time_stop_sse > t }
Containing(evs, t) ==
    { i \in Retained(evs, t) : evs[i].time_start_sse <= t }

LatestStop(evs, I) ==
    CHOOSE m \in { evs[i].time_stop_sse : i \in I } :
        \A i \in I : evs[i].time_stop_sse <= m
EarliestStart(evs, I) ==
    CHOOSE m \in { evs[i].time_start_sse : i \in I } :
        \A i \in I : evs[i].time_start_sse >= m

DbErrors == {"connect_error", "query_error", "row_error"}

\* C1: a poll in which connect_db, a query or the processing of the rows
\* raised has returned normally, and the snapshot of get_status says ERROR
\* (4, 'ERROR') with ok_collisions False.
C1_ErrorSnapshot ==
    last_outcome \in DbErrors =>
        /\ update_returned = "normal"
        /\ get_status(Self).ltcs_status = 4
        /\ get_status(Self).ltcs_status_str = "ERROR"
        /\ get_status(Self).ok_collisions = FALSE

\* a query failed in the poll after one that had published OPEN
C1_Witness ==
    /\ last_outcome = "query_error"
    /\ prev_outcome = "ok"
    /\ prev_status = 0
    /\ get_status(Self).ltcs_status = 4

\* C2: after a successful poll at time t that lies inside a retained event,
\* the snapshot says COLLISIONS, ok_collisions False, and remain_sec is the
\* latest stop among the events containing t, minus t.
C2_InsideEvent ==
    (last_outcome = "ok" /\ Containing(LastEvents, last_time) # {}) =>
        /\ get_status(Self).ltcs_status = 1
        /\ get_status(Self).ok_collisions = FALSE
        /\ get_status(Self).remain_sec =
             LatestStop(LastEvents, Containing(LastEvents, last_time))
               - last_time

\* two overlapping events, the longer one first, and a future one after them
C2_Witness ==
    /\ last_outcome = "ok"
    /\ Len(LastEvents) = 3
    /\ Cardinality(Containing(LastEvents, last_time)) = 2
    /\ LastEvents[1].time_stop_sse > LastEvents[2].time_stop_sse
    /\ Containing(LastEvents, last_time) = {1, 2}
    /\ get_status(Self).ltcs_status = 1

\* C3: after a successful poll at time t inside no retained event, with the
\* earliest retained start more than 0 and less than 24 h away, the snapshot
\* says PREDICTED, ok_collisions True, and remain_sec is that gap.
C3_Predicted ==
    (/\ last_outcome = "ok"
     /\ Containing(LastEvents, last_time) = {}
     /\ Retained(LastEvents, last_time) # {}
     /\ LET gap == EarliestStart(LastEvents, Retained(LastEvents, last_time))
                     - last_time
        IN  gap > 0 /\ gap < 86400) =>
        /\ get_status(Self).ltcs_status = 2
        /\ get_status(Self).ok_collisions = TRUE
        /\ get_status(Self).remain_sec =
             EarliestStart(LastEvents, Retained(LastEvents, last_time))
               - last_time

\* two future events, the nearer one first, after a fully past one
C3_Witness ==
    /\ last_outcome = "ok"
    /\ Len(LastEvents) = 3
    /\ Retained(LastEvents, last_time) = {2, 3}
    /\ LastEvents[2].time_start_sse < LastEvents[3].time_start_sse
    /\ get_status(Self).ltcs_status = 2

\* C4: after a successful poll at time t with a non-empty list, inside no
\* retained event and with no retained start within (0, 24 h) of t, the
\* snapshot says OPEN, ok_collisions True, and the countdown text is blank.
C4_OpenBlank ==
    (/\ last_outcome = "ok"
     /\ LastEvents # << >>
     /\ Containing(LastEvents, last_time) = {}
     /\ \/ Retained(LastEvents, last_time) = {}
        \/ LET gap == EarliestStart(LastEvents,
                                    Retained(LastEvents, last_time))
                        - last_time
           IN  ~(gap > 0 /\ gap < 86400)) =>
        /\ get_status(Self).ltcs_status = 0
        /\ get_status(Self).ok_collisions = TRUE
        /\ get_status(Self).remain_str = ""
        /\ get_status(Self).collisions_str = ""
        /\ get_status(Self).collisions_list_str = << >>

\* the only retained event starts exactly 24 h after the poll
C4_Witness ==
    /\ last_outcome = "ok"
    /\ Retained(LastEvents, last_time) # {}
    /\ EarliestStart(LastEvents, Retained(LastEvents, last_time))
         - last_time = 86400
    /\ get_status(Self).ltcs_status = 0

\* C5: a poll whose queries succeed and whose three event queries return no
\* rows publishes OPEN with ok_collisions True, whatever the snapshot was
\* before and whatever the health rows say.
C5_EmptyIsOpen ==
    (last_outcome = "ok" /\ LastEvents = << >>) =>
        /\ get_status(Self).ltcs_status = 0
        /\ get_status(Self).ok_collisions = TRUE

\* no rows and a stale health row, after a snapshot that said COLLISIONS
C5_Witness ==
    /\ last_outcome = "ok"
    /\ LastEvents = << >>
    /\ last_time - last_q_res.sys_health[1][2] > StaleThreshold
    /\ prev_status = 1
    /\ get_status(Self).ltcs_status = 0

\* C6: after any call of update, no key of the snapshot holds a value that
\* was written in an earlier poll.
C6_WholesaleReplace ==
    last_outcome # "none" =>
        \A f \in StatusFields : field_from[f] # "earlier"

\* C10: the poll after one that ended in ERROR on a failed connect_db or a
\* failed query calls connect_db again.
C10_Reconnects ==
    (prev_outcome \in {"connect_error", "query_error"}
       /\ last_outcome # "none") => connect_called

\* is a row of system_health older than the threshold at time t?
Stale(rows, t) ==
    \E i \in 1..Len(rows) : t - rows[i][2] > StaleThreshold

\* C11: stale system_health rows do not degrade the status.  Whatever the
\* rows of system_health say, check_ltcs_proc leaves ltcs_status at UP (5);
\* a poll whose queries and rows were good has put the rows of the three
\* event queries on the working list; and the snapshot a successful poll
\* publishes holds those events and does not say DOWN.
C11_StaleNotDown ==
    /\ check_ltcs_proc(Self, now, db.sys_health, StaleThreshold).ltcs_status
          = 5
    /\ last_outcome \in {"ok", "reduce_error"} =>
          ltcs_list_collisions = LastEvents
    /\ last_outcome = "ok" =>
          /\ get_status(Self).ltcs_status # 3
          /\ get_status(Self).ltcs_status_str # "DOWN"
          /\ get_status(Self).ltcs_collisions = LastEvents

\* a poll with a stale health row and one event containing the poll time
\* has published COLLISIONS
C11_Witness ==
    /\ last_outcome = "ok"
    /\ Stale(last_q_res.sys_health, last_time)
    /\ Containing(LastEvents, last_time) # {}
    /\ get_status(Self).ltcs_status = 1
    /\ get_status(Self).ltcs_collisions = LastEvents

\* C12: in every snapshot of get_status, from construction on and after
\* any sequence of successful and failing polls, ltcs_status is one of
\* OPEN (0), COLLISIONS (1), PREDICTED (2), DOWN (3), ERROR (4) and
\* ltcs_status_str is its name; UP (5) is never published.
C12_FiveStates ==
    /\ get_status(Self).ltcs_status \in 0..4
    /\ get_status(Self).ltcs_status_str
          = StatusName(get_status(Self).ltcs_status)

\* the processing of the rows raised after check_ltcs_proc had set UP
\* (a health row was read, an event row did not convert), and the
\* snapshot says ERROR
C12_Witness ==
    /\ last_outcome = "row_error"
    /\ last_q_res.sys_health # << >>
    /\ ltcs_status = 4
    /\ get_status(Self).ltcs_status = 4
    /\ get_status(Self).ltcs_status_str = "ERROR"

\* C13: after a successful poll the snapshot's ltcs_collisions is the
\* rows of that cycle's collisions, sim_predict and predict queries, in
\* that order, fully past events included, and nothing else: no event that
\* only an earlier cycle returned.
C13_RebuiltEachCycle ==
    last_outcome = "ok" =>
        /\ get_status(Self).ltcs_collisions =
              EventsOf(last_q_res.collisions)
                \o EventsOf(last_q_res.sim_predict)
                \o EventsOf(last_q_res.predict)
        /\ ltcs_list_collisions = get_status(Self).ltcs_collisions

\* the snapshot said COLLISIONS before the latest poll, so an earlier
\* cycle returned an event containing its time; the latest cycle returned
\* only an event that is fully past, and the snapshot holds just that one
C13_Witness ==
    /\ last_outcome = "ok"
    /\ prev_status = 1
    /\ Len(LastEvents) = 1
    /\ Retained(LastEvents, last_time) = {}
    /\ LastEvents[1].telescope_str = "UKIRT"
    /\ get_status(Self).ltcs_collisions = LastEvents

\* the events of evs that are not fully past at t, in their order
RetainedSeq(evs, t) == SelectSeq(evs, LAMBDA e : e.time_stop_sse > t)

\* is l the entries 'HH:MM -> HH:MM = Nmin' of the events evs, in order,
\* with one ' // ' between neighbours and nowhere else?
EntriesJoined(l, evs) ==
    /\ Len(l) = 2 * Len(evs) - 1
    /\ \A i \in 1..Len(l) :
          IF i % 2 = 1
          THEN /\ l[i] = list_entry(evs[(i + 1) \div 2])
               /\ l[i] # " // "
          ELSE l[i] = " // "

\* C20 as stated: after every successful poll that retains N >= 1 events,
\* collisions_list_str is the N entries joined by exactly N-1 ' // '.
C20_ListOfRetained ==
    (last_outcome = "ok" /\ RetainedSeq(LastEvents, last_time) # << >>) =>
        EntriesJoined(get_status(Self).collisions_list_str,
                      RetainedSeq(LastEvents, last_time))

\* C20 as amended: after a successful poll that retains N >= 1 events and
\* publishes COLLISIONS or PREDICTED, collisions_list_str is the N entries
\* joined by exactly N-1 ' // '; when it publishes OPEN (every retained
\* event starts 24 h or more after the poll) collisions_list_str is blank.
C20_ListUnlessOpen ==
    (last_outcome = "ok" /\ RetainedSeq(LastEvents, last_time) # << >>) =>
        IF get_status(Self).ltcs_status \in {1, 2}
        THEN EntriesJoined(get_status(Self).collisions_list_str,
                           RetainedSeq(LastEvents, last_time))
        ELSE /\ get_status(Self).ltcs_status = 0
             /\ get_status(Self).collisions_list_str = << >>

\* three rows, the first fully past and dropped, the other two retained:
\* two entries and one separator
C20_Witness ==
    /\ last_outcome = "ok"
    /\ Len(LastEvents) = 3
    /\ LastEvents[1].time_stop_sse <= last_time
    /\ Len(RetainedSeq(LastEvents, last_time)) = 2
    /\ Len(get_status(Self).collisions_list_str) = 3
    /\ get_status(Self).collisions_list_str[2] = " // "

\* ------------------------------------------------------------------------
\* The threads.  LTCS.check_collisions runs on a worker of the pool and
\* calls Collisions.update; update_coll_window_status runs on the GUI thread
\* and calls Collisions.get_status.  update is split at its statements, and
\* status.update at the keys it writes.
\* ------------------------------------------------------------------------
\* callbacks the GUI thread has not yet run
MaxGuiQueue == 1

\* the keys of the dict of status.update, in the order they are written
StatusKeyOrder ==
    <<"remain_str", "remain_sec", "impact", "collisions_str",
      "collisions_list_str", "collisions_status", "ltcs_collisions",
      "ltcs_status", "ltcs_status_str", "ok_collisions">>

RECURSIVE KeysIn(_, _)
KeysIn(order, upd) ==
    IF order = << >> THEN << >>
    ELSE IF Head(order) \in DOMAIN upd
         THEN <<Head(order)>> \o KeysIn(Tail(order), upd)
         ELSE KeysIn(Tail(order), upd)

\* threading.RLock: free, or already held by the same thread
rlock_free(lock, t) == lock = None \/ lock = t

\* variant: update runs without taking the lock
update_enter_unlocked(lock, t) == TRUE

\* line 332: with self._lock, in update
update_enter(lock, t) == rlock_free(lock, t)

\* variant: get_status copies without taking the lock
get_status_enter_unlocked(lock, t) == TRUE

\* line 361: with self._lock, in get_status
get_status_enter(lock, t) == rlock_free(lock, t)

Goto(t, label) == pc' = [pc EXCEPT ![t] = label]

\* nongui_do(check_collisions): a worker starts the task and calls update,
\* which reads the time (line 330)
StartTask(w) ==
    /\ pc[w] = "idle"
    /\ Goto(w, "lock")
    /\ local' = [local EXCEPT ![w] = [NoLocals EXCEPT !.time_sse = now]]
    /\ UNCHANGED plugVars
    /\ UNCHANGED <<collVars, envVars, histVars, _lock, gui_calls, ret,
                   gs_call, published>>

\* lines 332-333: the lock is taken and the working list is emptied
Enter(w) ==
    /\ pc[w] = "lock"
    /\ update_enter(_lock, w)
    /\ _lock' = w
    /\ Goto(w, "fetch_ltcs")
    /\ SetSelf([Self EXCEPT !.ltcs_list_collisions = << >>])
    /\ UNCHANGED <<plugVars, envVars, histVars, local, gui_calls, ret, gs_call,
                   published>>

\* line 336: fetch_ltcs returns the rows, or raises
Fetch(w, fault) ==
    LET f == fetch_ltcs(Self, db, fault)
    IN  /\ pc[w] = "fetch_ltcs"
        /\ SetSelf(f.self)
        /\ local' = [local EXCEPT ![w].q_res =
                        IF f.raised THEN NoRows ELSE f.q_res]
        /\ Goto(w, IF f.raised THEN "except" ELSE "check_ltcs")
        /\ UNCHANGED plugVars
        /\ UNCHANGED <<envVars, histVars, _lock, gui_calls, ret, gs_call,
                       published>>

\* lines 337-340: status DOWN, then check_ltcs
CheckLtcs(w) ==
    LET s1 == [Self EXCEPT !.ltcs_status = 3,
                           !.ltcs_status_str = StatusName(3)]
        c == check_ltcs(s1, local[w].time_sse, local[w].q_res)
    IN  /\ pc[w] = "check_ltcs"
        /\ SetSelf(c.self)
        /\ Goto(w, IF c.raised THEN "except" ELSE "check_collisions")
        /\ UNCHANGED plugVars
        /\ UNCHANGED <<envVars, histVars, _lock, local, gui_calls, ret,
                       gs_call, published>>

\* lines 346-350: status ERROR and the dict of the three keys
Except(w) ==
    LET s1 == [Self EXCEPT !.ltcs_status = 4,
                           !.ltcs_status_str = StatusName(4)]
    IN  /\ pc[w] = "except"
        /\ SetSelf(s1)
        /\ local' = [local EXCEPT
                       ![w].pending = error_dict(s1),
                       ![w].keys = KeysIn(StatusKeyOrder, error_dict(s1))]
        /\ Goto(w, "status_update")
        /\ UNCHANGED plugVars
        /\ UNCHANGED <<envVars, histVars, _lock, gui_calls, ret, gs_call,
                       published>>

\* lines 354 and 221-324: check_collisions up to the dict of status.update;
\* when it raises the handler of line 356 logs and update ends
Reduce(w) ==
    LET r == reduce_colls(Self, local[w].time_sse)
    IN  /\ pc[w] = "check_collisions"
        /\ SetSelf(r.self)
        /\ local' = [local EXCEPT
                       ![w].pending =
                           IF r.raised THEN << >> ELSE status_dict(r),
                       ![w].keys =
                           IF r.raised THEN << >>
                           ELSE KeysIn(StatusKeyOrder, status_dict(r))]
        /\ Goto(w, IF r.raised THEN "unlock" ELSE "status_update")
        /\ UNCHANGED plugVars
        /\ UNCHANGED <<envVars, histVars, _lock, gui_calls, ret, gs_call,
                       published>>

\* status.update writes the next key
WriteKey(w) ==
    /\ pc[w] = "status_update"
    /\ local[w].keys # << >>
    /\ status' = [status EXCEPT ![Head(local[w].keys)] =
                                    local[w].pending[Head(local[w].keys)]]
    /\ local' = [local EXCEPT ![w].keys = Tail(@)]
    /\ Goto(w, IF Tail(local[w].keys) = << >> THEN "unlock"
               ELSE "status_update")
    /\ UNCHANGED plugVars
    /\ UNCHANGED <<ltcs_status, ltcs_status_str, ltcs_list_collisions,
                   ok_collisions, _conn, envVars, histVars, _lock,
                   gui_calls, ret, gs_call, published>>

\* the with block of update ends
Leave(w) ==
    /\ pc[w] = "unlock"
    /\ _lock' = None
    /\ published' = status
    /\ local' = [local EXCEPT ![w] = NoLocals]
    /\ Goto(w, "post")
    /\ UNCHANGED plugVars
    /\ UNCHANGED <<collVars, envVars, histVars, gui_calls, ret, gs_call>>

\* LTCS.check_collisions, lines 130-131: gui_do(update_coll_window_status)
Post(w) ==
    /\ pc[w] = "post"
    /\ gui_calls < MaxGuiQueue
    /\ gui_calls' = gui_calls + 1
    /\ Goto(w, "idle")
    /\ UNCHANGED plugVars
    /\ UNCHANGED <<collVars, envVars, histVars, _lock, local, ret, gs_call,
                   published>>

\* the GUI thread runs update_coll_window_status, which calls get_status
GuiCall ==
    /\ pc[Gui] = "idle"
    /\ gui_calls > 0
    /\ gui_calls' = gui_calls - 1
    /\ gs_call' = [called |-> TRUE, during_update |-> _lock \in Workers,
                   published |-> published]
    /\ Goto(Gui, "gs_lock")
    /\ UNCHANGED <<plugVars, collVars, envVars, histVars, _lock, local, ret,
                   published>>

\* line 361: get_status takes the lock
GuiEnter ==
    /\ pc[Gui] = "gs_lock"
    /\ get_status_enter(_lock, Gui)
    /\ _lock' = Gui
    /\ Goto(Gui, "gs_copy")
    /\ UNCHANGED plugVars
    /\ UNCHANGED <<collVars, envVars, histVars, local, gui_calls, ret,
                   gs_call, published>>

\* line 362: status.copy(); before and after are the snapshot as the update
\* in progress, if any, found it and as its status.update will leave it
GuiCopy ==
    /\ pc[Gui] = "gs_copy"
    /\ ret' = [returned |-> TRUE, snap |-> get_status(Self),
               before |-> published,
               after |->
                   IF \E w \in Workers : pc[w] = "status_update"
                   THEN LET w == CHOOSE v \in Workers :
                                     pc[v] = "status_update"
                        IN  status_update(published, local[w].pending)
                   ELSE published]
    /\ Goto(Gui, "gs_unlock")
    /\ UNCHANGED plugVars
    /\ UNCHANGED <<collVars, envVars, histVars, _lock, local, gui_calls,
                   gs_call, published>>

\* the with block of get_status ends and the copy is returned
GuiLeave ==
    /\ pc[Gui] = "gs_unlock"
    /\ _lock' = None
    /\ Goto(Gui, "idle")
    /\ UNCHANGED plugVars
    /\ UNCHANGED <<collVars, envVars, histVars, local, gui_calls, ret,
                   gs_call, published>>

\* the databases of the concurrent specification: one healthy collector and
\* at most one row, in the collisions table
ConcDatabases ==
    { d \in Databases(EventRows, 1) :
        /\ d.sim_predict = << >>
        /\ d.predict = << >>
        /\ d.sys_health[1][2] = T0 - 5 }

InitConcurrent ==
    /\ InitColl
    /\ db \in ConcDatabases
    /\ now = T0
    /\ InitHist
    /\ InitConc
    /\ InitPlugins

NextConcurrent ==
    \/ \E w \in Workers : StartTask(w)
    \/ \E w \in Workers : Enter(w)
    \/ \E w \in Workers : \E fault \in {"none", "collisions"} : Fetch(w, fault)
    \/ \E w \in Workers : CheckLtcs(w)
    \/ \E w \in Workers : Except(w)
    \/ \E w \in Workers : Reduce(w)
    \/ \E w \in Workers : WriteKey(w)
    \/ \E w \in Workers : Leave(w)
    \/ \E w \in Workers : Post(w)
    \/ GuiCall
    \/ GuiEnter
    \/ GuiCopy
    \/ GuiLeave

SpecConcurrent == InitConcurrent /\ [][NextConcurrent]_vars

\* is worker w between taking and releasing the lock of update?
InUpdate(w) ==
    pc[w] \in {"fetch_ltcs", "check_ltcs", "except", "check_collisions",
               "status_update", "unlock"}

\* C7: the copy get_status returns is the snapshot as a completed update
\* left it: the one before the update in progress or the one that update
\* leaves, never a mixture of the two.
C7_NoMixedCopy ==
    ret.returned => (ret.snap = ret.before \/ ret.snap = ret.after)

\* get_status was called while a worker was inside update, and the copy it
\* returned is that update's snapshot, not the one published at the call
C7_Witness ==
    /\ ret.returned
    /\ gs_call.called
    /\ pc[Gui] = "gs_unlock"
    /\ gs_call.during_update
    /\ ret.snap # gs_call.published
    /\ ret.snap.ltcs_status = 4

\* C8: a thread that calls get_status while a worker executes the queries
\* of fetch_ltcs is not made to wait for them.
C8_NoWaitOnQueries ==
    \A w \in Workers :
        pc[w] = "fetch_ltcs" =>
            ~(pc[Gui] = "gs_lock" /\ ~get_status_enter(_lock, Gui))

\* C9: no two workers are inside the fetch and the reduction of update at
\* the same time.
C9_OneCycleInFlight ==
    \A v, w \in Workers : (v # w) => ~(InUpdate(v) /\ InUpdate(w))

\* a second task was started and waits for the lock while the first one is
\* executing its queries
C9_Witness ==
    \E v, w \in Workers :
        /\ v # w
        /\ pc[v] = "fetch_ltcs"
        /\ _lock = v
        /\ pc[w] = "lock"

\* ------------------------------------------------------------------------
\* The LTCS plugin.  time_changed_cb throttles the polls and hands
\* check_collisions to the worker pool with nongui_do; check_collisions
\* polls and hands update_coll_window_status to the GUI thread with gui_do.
\* build_gui, start, stop, time_changed_cb and update_coll_window_status
\* run on the GUI thread, one at a time.
\* ------------------------------------------------------------------------
\* the callbacks of SpecThrottle carry the site times T0 .. T0 +
\* MaxSiteStep, in any order
MaxSiteStep == 2
\* tasks handed to nongui_do that no worker has taken yet
MaxPoolQueue == 1

\* the default of the setting update_interval, in seconds
update_interval == 1

SiteTimes == { T0 + i : i \in 0..MaxSiteStep }

\* the site times of SpecLTCS: two callbacks more than update_interval
\* apart
TwoTimes == {T0, T0 + 2}

Abs(x) == IF x < 0 THEN -x ELSE x

Queues == [pool |-> pool_queue, gui |-> gui_queue]

SetQueues(q) ==
    /\ pool_queue' = q.pool
    /\ gui_queue' = q.gui

\* variant: check_collisions is handed to gui_do
nongui_do_on_gui(q, task) == [q EXCEPT !.gui = Append(@, task)]

\* fv.nongui_do(task): the task will run on a thread of the worker pool
nongui_do(q, task) == [q EXCEPT !.pool = Append(@, task)]

\* fv.gui_do(task): the task will run on the GUI thread
gui_do(q, task) == [q EXCEPT !.gui = Append(@, task)]

\* fv.assert_nongui_thread(): does it pass on thread t?
assert_nongui_thread(t) == t # Gui

\* lines 161-163: no update yet, or more than update_interval away from it
throttle_open(last, time_utc) ==
    last = << >> \/ Abs(time_utc - last[1]) > update_interval

\* build_gui: the site time is read, time_changed_cb is added to the
\* callbacks of SiteSelector, gui_up is set
BuildGui(time_utc) ==
    /\ ~gui_up
    /\ dt_utc' = <<time_utc>>
    /\ time_cb' = TRUE
    /\ gui_up' = TRUE
    /\ UNCHANGED <<_last_update_dt, pool_queue, gui_queue,
                   visplot_collisions, col_status, col_time_countdown,
                   exec_log, sched, last_cb>>
    /\ UNCHANGED <<collVars, envVars, histVars, concVars>>
    /\ UNCHANGED otherVars

\* time_changed_cb(cb, time_utc, cur_tz)
time_changed_cb(time_utc) ==
    LET open == throttle_open(_last_update_dt, time_utc)
        q == IF open /\ gui_up
             THEN nongui_do(Queues, "check_collisions")
             ELSE Queues
    IN  /\ time_cb
        /\ Len(q.pool) <= MaxPoolQueue
        /\ Len(q.gui) <= MaxGuiQueue
        /\ dt_utc' = <<time_utc>>
        /\ _last_update_dt' = IF open THEN <<time_utc>>
                              ELSE _last_update_dt
        /\ SetQueues(q)
        /\ UNCHANGED <<gui_up, time_cb, visplot_collisions, col_status,
                       col_time_countdown, exec_log>>
        /\ UNCHANGED <<collVars, envVars, histVars, concVars>>
        /\ UNCHANGED otherVars

\* the callback runs
TimeChanged(time_utc) ==
    /\ time_changed_cb(time_utc)
    /\ UNCHANGED <<sched, last_cb>>

\* the callback runs, and what it found and did is recorded
TimeChangedSeen(time_utc) ==
    LET did == pool_queue' # pool_queue \/ gui_queue' # gui_queue
    IN  /\ time_changed_cb(time_utc)
        /\ sched' = IF ~did THEN sched
                    ELSE IF Len(sched) = 2 THEN <<sched[2], time_utc>>
                    ELSE Append(sched, time_utc)
        /\ last_cb' = [called |-> TRUE,
                       first |-> _last_update_dt = << >>,
                       within |-> ~throttle_open(_last_update_dt,
                                                 time_utc),
                       gui_up |-> gui_up,
                       scheduled |-> did]

\* check_collisions, lines 126-128, on thread t: the assertion, then the
\* poll at the site time the plugin holds now
CheckCollisionsOn(t) ==
    LET u == update(Self, dt_utc[1], db, "none")
    IN  IF assert_nongui_thread(t)
        THEN /\ SetSelf(u.self)
             /\ Goto(t, "post")
             /\ exec_log' = exec_log \cup {<<"check_collisions", t>>,
                                            <<"update", t>>}
        ELSE /\ UNCHANGED <<collVars, pc>>
             /\ exec_log' = exec_log \cup {<<"check_collisions", t>>}

\* update_coll_window_status on thread t
UpdateWindowOn(t) ==
    LET st == get_status(Self)
    IN  /\ visplot_collisions' = <<st.ltcs_collisions>>
        /\ col_status' = IF ~st.ok_collisions
                         THEN "CLOSED: " \o st.collisions_str
                         ELSE "OPEN: " \o st.collisions_str
        /\ col_time_countdown' =
              IF ~st.ok_collisions
              THEN st.remain_str \o " until opening"
              ELSE st.remain_str \o " until closing"
        /\ exec_log' = exec_log \cup {<<"update_coll_window_status", t>>}

\* a worker of the pool takes the next task handed to nongui_do
RunPool(w) ==
    /\ pc[w] = "idle"
    /\ pool_queue # << >>
    /\ pool_queue' = Tail(pool_queue)
    /\ IF Head(pool_queue) = "check_collisions"
       THEN /\ CheckCollisionsOn(w)
            /\ UNCHANGED <<visplot_collisions, col_status,
                           col_time_countdown>>
       ELSE /\ UpdateWindowOn(w)
            /\ UNCHANGED <<collVars, pc>>
    /\ UNCHANGED <<gui_up, dt_utc, _last_update_dt, time_cb, gui_queue,
                   sched, last_cb>>
    /\ UNCHANGED <<envVars, histVars, _lock, local, gui_calls, ret,
                   gs_call, published>>
    /\ UNCHANGED otherVars

\* check_collisions, lines 130-131
PostGui(t) ==
    LET q == IF gui_up
             THEN gui_do(Queues, "update_coll_window_status")
             ELSE Queues
    IN  /\ pc[t] = "post"
        /\ Len(q.gui) <= MaxGuiQueue
        /\ SetQueues(q)
        /\ Goto(t, "idle")
        /\ UNCHANGED <<gui_up, dt_utc, _last_update_dt, time_cb,
                       visplot_collisions, col_status, col_time_countdown,
                       exec_log, sched, last_cb>>
        /\ UNCHANGED <<collVars, envVars, histVars, _lock, local,
                       gui_calls, ret, gs_call, published>>
        /\ UNCHANGED otherVars

\* the GUI thread takes the next task handed to gui_do
RunGui ==
    /\ pc[Gui] = "idle"
    /\ gui_queue # << >>
    /\ gui_queue' = Tail(gui_queue)
    /\ IF Head(gui_queue) = "update_coll_window_status"
       THEN /\ UpdateWindowOn(Gui)
            /\ UNCHANGED <<collVars, pc>>
       ELSE /\ CheckCollisionsOn(Gui)
            /\ UNCHANGED <<visplot_collisions, col_status,
                           col_time_countdown>>
    /\ UNCHANGED <<gui_up, dt_utc, _last_update_dt, time_cb, pool_queue,
                   sched, last_cb>>
    /\ UNCHANGED <<envVars, histVars, _lock, local, gui_calls, ret,
                   gs_call, published>>
    /\ UNCHANGED otherVars

\* the databases of the plugin specification: a healthy collector and
\* either no row or a collision around T0
PluginDatabases ==
    { d \in ConcDatabases :
        \A i \in 1..Len(d.collisions) : d.collisions[i][2] = "KECK1" }

InitLTCS ==
    /\ InitColl
    /\ db \in PluginDatabases
    /\ now = T0
    /\ InitHist
    /\ InitConc
    /\ InitPlugins

NextLTCS ==
    \/ \E time_utc \in TwoTimes : BuildGui(time_utc)
    \/ Connect("none")
    \/ Disconnect
    \/ \E time_utc \in TwoTimes : TimeChanged(time_utc)
    \/ \E w \in Workers : RunPool(w)
    \/ \E t \in Threads : PostGui(t)
    \/ RunGui

SpecLTCS == InitLTCS /\ [][NextLTCS]_vars

\* the throttle: callbacks at any of the site times, each one recorded
NextThrottle ==
    \/ \E time_utc \in SiteTimes : BuildGui(time_utc)
    \/ Disconnect
    \/ \E time_utc \in SiteTimes : TimeChangedSeen(time_utc)
    \/ \E w \in Workers : RunPool(w)
    \/ \E t \in Threads : PostGui(t)
    \/ RunGui

SpecThrottle == InitLTCS /\ [][NextThrottle]_vars

\* C14: in the LTCS plugin Collisions.update runs on threads of the worker
\* pool only: check_collisions, the one caller of update, is handed to
\* nongui_do and never to gui_do, and it passes assert_nongui_thread
\* before it polls; update_coll_window_status, which reads the snapshot,
\* is handed to gui_do and runs on the GUI thread.
C14_PollOffGui ==
    /\ \A e \in exec_log :
          /\ e[1] \in {"check_collisions", "update"} => e[2] \in Workers
          /\ e[1] = "update_coll_window_status" => e[2] = Gui
    /\ \A i \in 1..Len(pool_queue) : pool_queue[i] = "check_collisions"
    /\ \A i \in 1..Len(gui_queue) :
          gui_queue[i] = "update_coll_window_status"

\* a worker has polled, the GUI thread has run the widget update that the
\* poll queued, and the visibility plot holds the snapshot's event
C14_Witness ==
    /\ \E w \in Workers : <<"update", w>> \in exec_log
    /\ <<"update_coll_window_status", Gui>> \in exec_log
    /\ visplot_collisions = <<get_status(Self).ltcs_collisions>>
    /\ get_status(Self).ltcs_status = 1

\* C15: the first callback schedules a poll when the GUI is up; any two
\* polls scheduled one after the other were scheduled at site times more
\* than update_interval apart; a callback whose time is within
\* update_interval of the last recorded update time schedules nothing.
C15_Throttled ==
    /\ (last_cb.called /\ last_cb.first /\ last_cb.gui_up) =>
          last_cb.scheduled
    /\ Len(sched) = 2 => Abs(sched[2] - sched[1]) > update_interval
    /\ (last_cb.called /\ last_cb.within) => ~last_cb.scheduled

\* ------------------------------------------------------------------------
\* The SubaruOCS plugin.  start() clears ev_quit, connects, and hands two
\* loops to the worker pool: the producer st_stream.subscribe_loop, which
\* puts envelopes on a new queue, and consume_stream, which takes them off.
\* stop() sets ev_quit.  Time is counted in seconds while a get waits.
\* ------------------------------------------------------------------------
\* envelopes in one status_q
MaxQueue == 1
\* seconds a get is followed while it waits
MaxWait == 2

\* the timeout of status_q.get, in seconds
QueueTimeout == 1

\* what st_client.fetch and an envelope of the stream bring
FetchedStatus == [az_deg |-> <<10>>, teldrive |-> "Tracking"]
StreamStatus == [az_deg |-> <<20>>, teldrive |-> "Guiding(AG1)"]

\* the envelopes: all the items, none of them, or no 'status' key
Envelopes == {"full", "empty", "bad"}

\* str(v).lower(), and 'guiding' for what starts with it
tel_status(v) ==
    CASE v = None -> "none"
      [] v = "Tracking" -> "tracking"
      [] v = "Guiding(AG1)" -> "guiding"

\* line 164: the items of the envelope, the local value where it has none
res_dct(envelope, local_status) ==
    IF envelope = "full" THEN StreamStatus ELSE local_status

\* update_status, lines 136-147: the dict handed to the site object
site_dct(status_dct) ==
    [az_deg |-> status_dct.az_deg,
     tel_status |-> tel_status(status_dct.teldrive)]

\* variant: get(block=True) without a timeout
get_never_times_out(w) == FALSE

\* line 161: get(block=True, timeout=1.0) raises Empty after the timeout
get_times_out(w) == w >= QueueTimeout

Running(i) == loop_pc[i] \in {"queued", "while", "get"}

Waiting(i) == loop_pc[i] = "get" /\ status_q[i] = 0

FreeLoops == { i \in Loops : ~Running(i) }

\* start(): how it ends depends on the settings and on the servers
OcsStart(outcome) ==
    LET i == CHOOSE j \in FreeLoops : \A k \in FreeLoops : j <= k
    IN  /\ ev_quit' = FALSE
        /\ site_status' = site_status
        /\ CASE outcome = "no_host" ->
                  UNCHANGED <<ocs_status, loop_pc, status_q, waited>>
             [] outcome = "client_error" ->
                  UNCHANGED <<ocs_status, loop_pc, status_q, waited>>
             [] outcome = "stream_error" ->
                  /\ ocs_status' = FetchedStatus
                  /\ UNCHANGED <<loop_pc, status_q, waited>>
             [] outcome = "connected" ->
                  /\ FreeLoops # {}
                  /\ ocs_status' = FetchedStatus
                  /\ loop_pc' = [loop_pc EXCEPT ![i] = "queued"]
                  /\ status_q' = [status_q EXCEPT ![i] = 0]
                  /\ waited' = [waited EXCEPT ![i] = 0]
        /\ UNCHANGED <<collVars, envVars, histVars, concVars, ltcsVars>>
    /\ UNCHANGED rotVars

\* stop()
OcsStop ==
    /\ ev_quit' = TRUE
    /\ UNCHANGED <<ocs_status, site_status, loop_pc, status_q, waited>>
    /\ UNCHANGED <<collVars, envVars, histVars, concVars, ltcsVars>>
    /\ UNCHANGED rotVars

\* the producer puts an envelope on the queue of its consumer
Put(i) ==
    /\ Running(i)
    /\ status_q[i] < MaxQueue
    /\ status_q' = [status_q EXCEPT ![i] = @ + 1]
    /\ UNCHANGED <<ev_quit, ocs_status, site_status, loop_pc, waited>>
    /\ UNCHANGED <<collVars, envVars, histVars, concVars, ltcsVars>>
    /\ UNCHANGED rotVars

\* a thread of the pool begins consume_stream
Begin(i) ==
    /\ loop_pc[i] = "queued"
    /\ loop_pc' = [loop_pc EXCEPT ![i] = "while"]
    /\ UNCHANGED <<ev_quit, ocs_status, site_status, status_q, waited>>

\* line 159: while not ev_quit.is_set(); the queue goes with the loop
While(i) ==
    /\ loop_pc[i] = "while"
    /\ loop_pc' = [loop_pc EXCEPT ![i] =
                      IF ev_quit THEN "returned" ELSE "get"]
    /\ waited' = [waited EXCEPT ![i] = IF ev_quit THEN @ ELSE 0]
    /\ status_q' = [status_q EXCEPT ![i] = IF ev_quit THEN 0 ELSE @]
    /\ UNCHANGED <<ev_quit, ocs_status, site_status>>

\* lines 161-168 and 173-174: get returns an envelope, which is ingested
\* by update_status, or whose processing raises and is logged
Take(i, envelope, site_found) ==
    /\ loop_pc[i] = "get"
    /\ status_q[i] > 0
    /\ status_q' = [status_q EXCEPT ![i] = @ - 1]
    /\ loop_pc' = [loop_pc EXCEPT ![i] = "while"]
    /\ IF envelope = "bad"
       THEN UNCHANGED <<ocs_status, site_status>>
       ELSE /\ ocs_status' = res_dct(envelope, ocs_status)
            /\ site_status' =
                  IF site_found
                  THEN <<site_dct(res_dct(envelope, ocs_status))>>
                  ELSE site_status
    /\ UNCHANGED <<ev_quit, waited>>

\* lines 161 and 170-171: get raises Empty, continue
Timeout(i) ==
    /\ Waiting(i)
    /\ get_times_out(waited[i])
    /\ loop_pc' = [loop_pc EXCEPT ![i] = "while"]
    /\ UNCHANGED <<ev_quit, ocs_status, site_status, status_q, waited>>

\* the steps of consume_stream
LoopStep(i) ==
    /\ \/ Begin(i)
       \/ While(i)
       \/ \E envelope \in Envelopes : \E site_found \in BOOLEAN :
             Take(i, envelope, site_found)
       \/ Timeout(i)
    /\ UNCHANGED <<collVars, envVars, histVars, concVars, ltcsVars>>
    /\ UNCHANGED rotVars

\* a second passes for every get that waits on an empty queue; none of
\* them is due to time out
OcsTick ==
    /\ \E i \in Loops : Waiting(i)
    /\ \A i \in Loops :
          Waiting(i) => ~get_times_out(waited[i]) /\ waited[i] < MaxWait
    /\ waited' = [i \in Loops |->
                     IF Waiting(i) THEN waited[i] + 1 ELSE waited[i]]
    /\ UNCHANGED <<ev_quit, ocs_status, site_status, loop_pc, status_q>>
    /\ UNCHANGED <<collVars, envVars, histVars, concVars, ltcsVars>>
    /\ UNCHANGED rotVars

InitOCS ==
    /\ InitColl
    /\ db = NoRows
    /\ now = T0
    /\ InitHist
    /\ InitConc
    /\ InitPlugins

NextOCS ==
    \/ \E outcome \in {"no_host", "client_error", "stream_error",
                       "connected"} : OcsStart(outcome)
    \/ OcsStop
    \/ \E i \in Loops : Put(i)
    \/ \E i \in Loops : LoopStep(i)
    \/ OcsTick

\* a thread of the pool that has a loop runs it, and time passes
Progress == (\E i \in Loops : LoopStep(i)) \/ OcsTick

\* the threads do not all halt while one of them can take a step and the
\* clock does not stop
SpecOCS == InitOCS /\ [][NextOCS]_vars /\ WF_vars(Progress)

\* C16: consume_stream runs until it sees ev_quit set: it returns only
\* then; once stop() has set ev_quit every running loop returns, unless
\* the flag is cleared again; and no get waits on an empty queue for more
\* than the 1-second timeout before the flag is tested again.
C16_ConsumerStops ==
    /\ [][\A i \in Loops :
            (loop_pc[i] # "returned" /\ loop_pc'[i] = "returned")
              => ev_quit]_vars
    /\ (ev_quit /\ \E i \in Loops : Running(i))
          ~> (~ev_quit \/ \A i \in Loops : ~Running(i))
    /\ [](\A i \in Loops : waited[i] <= QueueTimeout)

\* a loop has returned after stop(); its last get had waited the full
\* second on an empty queue
C16_Witness ==
    \E i \in Loops :
        /\ loop_pc[i] = "returned"
        /\ ev_quit
        /\ waited[i] = QueueTimeout
        /\ status_q[i] = 0

\* ------------------------------------------------------------------------
\* The RotCalc plugin.  Angles are integers in tenths of a degree.  The
\* functions of naoj.util.rot are not part of the program: what they return
\* is an input of calc_rotations_cb.
\* ------------------------------------------------------------------------
\* np.nan
NaN == 999999

az_min_deg == -2700
az_max_deg == 2700

\* the limits rot_limits has for an instrument, or the default
RotLimits == {DefaultRotLimits, <<-1800, 1800>>}

TimeZones == {-36000}

RotTimes == {T0, T0 + 60}

Delays == {0, 60}

Targets == {"T1"}

\* results of calc_possible_rotations: two triples (start, stop, offset)
RotChoices ==
    { << <<-1000, -900, 100>>, <<2600, 2700, -1700>> >>,
      << <<1750, 1850, 300>>, <<-1850, -1750, -600>> >> }

\* results of calc_possible_azimuths: a list of pairs (start, stop)
AzChoices == { << >>, << <<100, 200>>, <<2650, 2750>> >> }

\* how a call of calc_optimal_rotation ends: with one of the two
\* candidates, with a pair of nan, or with an exception
Optimal == {"first", "second", "nan", "raise"}

calc_optimal_rotation(choice, start1, stop1, start2, stop2) ==
    CASE choice = "first" -> <<start1, stop1>>
      [] choice = "second" -> <<start2, stop2>>
      [] OTHER -> <<NaN, NaN>>

\* np.isclose(a, b, atol=0.1): |a - b| <= 0.1 + 1e-5 * |b|, False for nan
isclose(a, b) == a # NaN /\ b # NaN /\ Abs(a - b) <= 1

\* "%.1f" % x
Fmt1(x) ==
    IF x = NaN THEN "nan"
    ELSE (IF x < 0 THEN "-" ELSE "")
         \o ToString(Abs(x) \div 10) \o "." \o ToString(Abs(x) % 10)

\* astimezone(cur_tz).strftime("%H:%M:%S")
strftime(t, tz) ==
    LET s == (t + tz) % 86400
    IN  Pad2(s \div 3600) \o ":" \o Pad2((s % 3600) \div 60) \o ":"
        \o Pad2(s % 60)

\* variant: the table and the dict are not emptied
clear_keeps(tbl) == tbl

\* lines 233-234: rot_tbl.clear() and tbl_dct = dict()
clear(tbl) == {}

\* line 307: tbl_dct[key] = row, the rows being keyed by their time
set_item(tbl, row) == { r \in tbl : r.time # row.time } \cup {row}

\* a candidate lies within the limits with its start and its stop
Fits(start, stop, lo, hi) ==
    /\ start # NaN /\ stop # NaN
    /\ lo <= start /\ start <= hi
    /\ lo <= stop /\ stop <= hi

\* build_gui: the widgets are new, the time is the site's
RotBuildGui(time_utc, tz) ==
    /\ ~rot_gui_up
    /\ rot_dt_utc' = <<time_utc>>
    /\ cur_tz' = <<tz>>
    /\ pointing' = ""
    /\ follow_telescope' = FALSE
    /\ rot_tbl' = {}
    /\ rot_gui_up' = TRUE
    /\ fv_error' = ""
    /\ last_calc' = NoCalc
    /\ completed' = {}
    /\ UNCHANGED <<rot_limit_deg, tbl_dct, time_str>>
    /\ UNCHANGED <<collVars, envVars, histVars, concVars, ltcsVars, ocsVars>>
    /\ UNCHANGED _cur_target
    /\ last_telpos' = NoTelpos

\* RotCalc.stop
RotStop ==
    /\ rot_gui_up
    /\ rot_gui_up' = FALSE
    /\ UNCHANGED <<follow_telescope, pointing, rot_dt_utc, cur_tz,
                   rot_limit_deg, tbl_dct, rot_tbl, time_str, fv_error,
                   last_calc, completed>>
    /\ UNCHANGED <<collVars, envVars, histVars, concVars, ltcsVars, ocsVars>>
    /\ UNCHANGED _cur_target
    /\ last_telpos' = NoTelpos

\* RotCalc.time_changed_cb, registered by build_gui
RotTimeChanged(time_utc, tz) ==
    /\ rot_dt_utc # << >>
    /\ rot_dt_utc' = <<time_utc>>
    /\ cur_tz' = <<tz>>
    /\ UNCHANGED <<rot_gui_up, follow_telescope, pointing, rot_limit_deg,
                   tbl_dct, rot_tbl, time_str, fv_error, last_calc,
                   completed>>
    /\ UNCHANGED <<collVars, envVars, histVars, concVars, ltcsVars, ocsVars>>
    /\ UNCHANGED _cur_target
    /\ last_telpos' = NoTelpos

\* choose_instrument_cb
ChooseInstrument(limits) ==
    /\ rot_gui_up
    /\ rot_limit_deg' = limits
    /\ fv_error' = ""
    /\ UNCHANGED <<rot_gui_up, follow_telescope, pointing, rot_dt_utc,
                   cur_tz, tbl_dct, rot_tbl, time_str, last_calc,
                   completed>>
    /\ UNCHANGED <<collVars, envVars, histVars, concVars, ltcsVars, ocsVars>>
    /\ UNCHANGED _cur_target
    /\ last_telpos' = NoTelpos

\* get_selected_target_cb and set_pointing
GetSelected(selected) ==
    /\ rot_gui_up
    /\ IF follow_telescope
       THEN /\ fv_error' = "uncheck 'Follow telescope' to get selection"
            /\ pointing' = pointing
       ELSE IF Cardinality(selected) # 1
       THEN /\ fv_error' = "Please select exactly one target"
            /\ pointing' = pointing
       ELSE /\ fv_error' = ""
            /\ pointing' = CHOOSE tgt \in selected : TRUE
    /\ UNCHANGED <<rot_gui_up, follow_telescope, rot_dt_utc, cur_tz,
                   rot_limit_deg, tbl_dct, rot_tbl, time_str, last_calc,
                   completed>>
    /\ UNCHANGED <<collVars, envVars, histVars, concVars, ltcsVars, ocsVars>>
    /\ UNCHANGED _cur_target
    /\ last_telpos' = NoTelpos

\* calc_rotations_cb
Calc(delay, res, az_choices, rot_choice, az_choice) ==
    LET label == strftime(rot_dt_utc[1] + delay, cur_tz[1])
        rot == calc_optimal_rotation(rot_choice, res[1][1], res[1][2],
                                     res[2][1], res[2][2])
        offset_angle == IF isclose(rot[1], res[1][1])
                        THEN res[1][3] ELSE res[2][3]
        az1 == IF Len(az_choices) > 0 THEN az_choices[1] ELSE <<NaN, NaN>>
        az2 == IF Len(az_choices) > 1 THEN az_choices[2] ELSE <<NaN, NaN>>
        az == calc_optimal_rotation(az_choice, az1[1], az1[2],
                                    az2[1], az2[2])
        row == [time |-> label, name |-> pointing,
                rot_chosen |-> Fmt1(rot[1]),
                offset_angle |-> Fmt1(offset_angle),
                az_chosen |-> Fmt1(az[1])]
        rot_fits == \/ Fits(res[1][1], res[1][2],
                            rot_limit_deg[1], rot_limit_deg[2])
                    \/ Fits(res[2][1], res[2][2],
                            rot_limit_deg[1], rot_limit_deg[2])
        az_fits == \/ Fits(az1[1], az1[2], az_min_deg, az_max_deg)
                   \/ Fits(az2[1], az2[2], az_min_deg, az_max_deg)
        \* hmsStrToDeg raises on the empty text, before time_str is set
        parsed == pointing # ""
        raised == ~parsed \/ rot_choice = "raise" \/ az_choice = "raise"
    IN  /\ rot_gui_up
        /\ time_str' = IF parsed THEN <<label>> ELSE time_str
        /\ tbl_dct' = IF raised THEN clear(tbl_dct)
                      ELSE set_item(clear(tbl_dct), row)
        /\ rot_tbl' = IF raised THEN clear(rot_tbl) ELSE tbl_dct'
        /\ fv_error' = ""
        /\ last_calc' = [done |-> IF raised THEN "raised" ELSE "completed",
                         row |-> IF raised THEN << >> ELSE <<row>>,
                         rot_fits |-> ~parsed \/ rot_fits,
                         az_fits |-> \/ ~parsed
                                     \/ rot_choice = "raise"
                                     \/ az_fits,
                         res |-> IF parsed THEN <<res>> ELSE << >>]
        /\ completed' = IF raised THEN completed
                        ELSE completed \cup {label}
        /\ UNCHANGED <<rot_gui_up, follow_telescope, pointing, rot_dt_utc,
                       cur_tz, rot_limit_deg>>
        /\ UNCHANGED <<collVars, envVars, histVars, concVars, ltcsVars,
                       ocsVars>>
        /\ UNCHANGED _cur_target
        /\ last_telpos' = NoTelpos

InitRotCalc ==
    /\ InitColl
    /\ db = NoRows
    /\ now = T0
    /\ InitHist
    /\ InitConc
    /\ InitPlugins

NextRotCalc ==
    \/ \E time_utc \in RotTimes : \E tz \in TimeZones :
         RotBuildGui(time_utc, tz) \/ RotTimeChanged(time_utc, tz)
    \/ RotStop
    \/ \E limits \in RotLimits : ChooseInstrument(limits)
    \/ \E selected \in SUBSET Targets : GetSelected(selected)
    \/ \E delay \in Delays : \E res \in RotChoices :
         \E az_choices \in AzChoices :
           \E rot_choice \in Optimal : \E az_choice \in Optimal :
             Calc(delay, res, az_choices, rot_choice, az_choice)

SpecRotCalc == InitRotCalc /\ [][NextRotCalc]_vars

\* a row shows a chosen rotator angle, a chosen azimuth or an offset angle
Presents(row) ==
    \/ row.rot_chosen # "nan"
    \/ row.az_chosen # "nan"
    \/ row.offset_angle # "nan"

\* C18: when neither rotator candidate fits the rotator limits, or no
\* azimuth candidate fits the azimuth limits, calc_rotations_cb shows an
\* error to the user and the table presents no chosen angle and no offset
\* angle.
C18_OutOfRangeReported ==
    (last_calc.done # "none"
       /\ (~last_calc.rot_fits \/ ~last_calc.az_fits))
    => /\ fv_error # ""
       /\ \A row \in rot_tbl : ~Presents(row)

\* C19 (as stated): after the calculation has completed with k distinct
\* labels, the table holds k rows.
C19_RowsAccumulate ==
    last_calc.done = "completed"
    => Cardinality(rot_tbl) = Cardinality(completed)

\* C19 (amended): after an invocation that completed, tbl_dct and the
\* table hold one row, the row of that invocation, under its label
\* time_str, whatever the earlier invocations left; after an invocation
\* that raised they are empty.
C19_LatestRowOnly ==
    /\ last_calc.done = "completed"
       => /\ rot_tbl = {last_calc.row[1]}
          /\ tbl_dct = rot_tbl
          /\ time_str = <<last_calc.row[1].time>>
    /\ last_calc.done = "raised" => rot_tbl = {} /\ tbl_dct = {}

\* invocations with two distinct labels have completed and the table
\* holds the single row of the latest
C19_Witness ==
    /\ last_calc.done = "completed"
    /\ Cardinality(completed) = 2
    /\ Cardinality(rot_tbl) = 1
    /\ time_str = <<last_calc.row[1].time>>

\* ------------------------------------------------------------------------
\* Further properties of the reduction
\* ------------------------------------------------------------------------
\* t lies in [time_start_sse, time_stop_sse)
HalfOpen(e, t) == e.time_start_sse <= t /\ t < e.time_stop_sse

\* C21: an event is the half-open interval [time_start_sse, time_stop_sse).
\* A successful poll at t publishes COLLISIONS exactly when some event has
\* time_start_sse <= t < time_stop_sse, and then remain_sec is counted to
\* the latest stop of those events; an event with time_stop_sse <= t is
\* dropped: it has no entry in the list and it is not the impact.
C21_HalfOpenInterval ==
    last_outcome = "ok" =>
        LET evs == LastEvents
            t == last_time
            snap == get_status(Self)
            inside == { i \in 1..Len(evs) : HalfOpen(evs[i], t) }
            kept == { i \in 1..Len(evs) : t < evs[i].time_stop_sse }
        IN  /\ snap.ltcs_status = 1 <=> inside # {}
            /\ snap.ltcs_status = 1 =>
                  snap.remain_sec = LatestStop(evs, inside) - t
            /\ snap.ltcs_status \in {1, 2} =>
                  Len(snap.collisions_list_str) = 2 * Cardinality(kept) - 1
            /\ snap.impact # "" =>
                  \E i \in kept : evs[i].telescope_str = snap.impact

\* the poll at the start time of the only event had published COLLISIONS;
\* the poll at its stop time has published OPEN
C21_Witness ==
    /\ last_outcome = "ok"
    /\ Len(LastEvents) = 1
    /\ LastEvents[1].time_start_sse = T0
    /\ LastEvents[1].time_stop_sse = last_time
    /\ prev_status = 1
    /\ get_status(Self).ltcs_status = 0

\* C25: a successful poll that publishes COLLISIONS or PREDICTED publishes
\* a countdown string: remain_str is not empty and is remain_sec written
\* as HH:MM:SS, whatever the remaining time, 24 hours and more included.
C25_CountdownString ==
    (last_outcome = "ok" /\ get_status(Self).ltcs_status \in {1, 2}) =>
        /\ get_status(Self).remain_str # ""
        /\ get_status(Self).remain_str
              = FormatRemain(get_status(Self).remain_sec)

\* the events of the latest poll whose stop (start) time is the one the
\* countdown of COLLISIONS (PREDICTED) is counted to
CountdownEvents ==
    LET evs == LastEvents
        t == last_time
        kept == Retained(evs, t)
        inside == Containing(evs, t)
    IN  IF get_status(Self).ltcs_status = 1
        THEN { i \in inside :
                 evs[i].time_stop_sse = LatestStop(evs, inside) }
        ELSE { i \in kept :
                 evs[i].time_start_sse = EarliestStart(evs, kept) }

\* C26: the impact of the snapshot is the telescope of the event of the
\* countdown: under COLLISIONS the event containing the poll time that
\* stops last, under PREDICTED the retained event that starts first, in
\* whatever order the three queries list the events.
C26_ImpactOfCountdown ==
    (last_outcome = "ok" /\ get_status(Self).ltcs_status \in {1, 2}) =>
        \E i \in CountdownEvents :
            LastEvents[i].telescope_str = get_status(Self).impact

\* C27: the snapshot a successful poll publishes depends on that cycle's
\* query results and time only: it is, in every field, the snapshot a
\* freshly constructed monitor publishes for the same results at the same
\* time, whatever polls came before.
C27_HistoryFree ==
    last_outcome = "ok" =>
        get_status(Self)
            = get_status(update(InitialSelf, last_time, last_q_res,
                                "none").self)

\* a successful poll that followed a poll ended in ERROR: the snapshot
\* said ERROR before it, and it has published PREDICTED
C27_Witness ==
    /\ last_outcome = "ok"
    /\ prev_outcome \in DbErrors
    /\ prev_status = 4
    /\ LastEvents # << >>
    /\ get_status(Self).ltcs_status = 2

\* C28: a poll whose queries and rows were good and whose reduction raised
\* returns normally and leaves the snapshot of get_status as it was before
\* the poll, field for field; it publishes no ERROR for the cycle.
C28_ReduceErrorKeepsSnapshot ==
    [][((\E fault \in Faults : Poll(fault))
            /\ last_outcome' = "reduce_error")
         => /\ update_returned' = "normal"
            /\ get_status(Self)' = get_status(Self)]_vars

\* the poll at T0 published COLLISIONS with KECK1, 10 s to go; the poll at
\* T0 + 10 raised in the reduction and the snapshot still says so, while
\* the working list is the one of the latest cycle
C28_Witness ==
    /\ last_outcome = "reduce_error"
    /\ prev_outcome = "ok"
    /\ update_returned = "normal"
    /\ last_time = T0 + 10
    /\ ltcs_list_collisions = LastEvents
    /\ get_status(Self).ltcs_status = 1
    /\ get_status(Self).impact = "KECK1"
    /\ get_status(Self).remain_sec = 10

\* ------------------------------------------------------------------------
\* Further properties of the LTCS plugin
\* ------------------------------------------------------------------------
\* C29: while gui_up is False, that is from LTCS.stop, which clears the
\* collisions of the visibility plot, until build_gui runs again, no event
\* list is set on the visibility plot, however stop interleaves with a
\* check_collisions task on a worker and its queued
\* update_coll_window_status.
C29_NoPlotAfterStop ==
    ~gui_up => visplot_collisions = << >>

\* ------------------------------------------------------------------------
\* Further properties of SubaruOCS
\* ------------------------------------------------------------------------
\* every thread of the pool that has a loop keeps running it, and the
\* clock does not stop
SpecRestart ==
    /\ InitOCS
    /\ [][NextOCS]_vars
    /\ \A i \in Loops : WF_vars(LoopStep(i))
    /\ WF_vars(OcsTick)

\* C30: a consume_stream loop that runs when stop() sets ev_quit returns,
\* also when start() is called again after that stop(), so that the loop
\* of an earlier start() does not run on beside the loop of a later one.
C30_LoopEndsAfterStop ==
    \A i \in Loops : (ev_quit /\ Running(i)) ~> ~Running(i)

\* ------------------------------------------------------------------------
\* Further properties of RotCalc
\* ------------------------------------------------------------------------
\* the targets the telescope can be on, and what it reports of its drive
TelTargets == {"T1", "T2"}
TelStatuses == {"Tracking", "guiding", "slewing"}

\* str.lower()
lower(s) == IF s = "Tracking" THEN "tracking" ELSE s

\* the user checks or unchecks 'Follow telescope'
ToggleFollow ==
    /\ rot_gui_up
    /\ follow_telescope' = ~follow_telescope
    /\ last_telpos' = NoTelpos
    /\ UNCHANGED <<rot_gui_up, pointing, rot_dt_utc, cur_tz, rot_limit_deg,
                   tbl_dct, rot_tbl, time_str, fv_error, _cur_target,
                   last_calc, completed>>
    /\ UNCHANGED <<collVars, envVars, histVars, concVars, ltcsVars, ocsVars>>

\* telpos_changed_cb and set_pointing, on the GUI thread; build_gui has
\* registered the callback
telpos_changed_cb(tel_state, target) ==
    /\ rot_dt_utc # << >>
    /\ IF ~rot_gui_up \/ ~follow_telescope
       THEN UNCHANGED <<_cur_target, pointing>>
       ELSE IF lower(tel_state) \notin {"tracking", "guiding"}
       THEN UNCHANGED <<_cur_target, pointing>>
       ELSE IF target = None \/ target = _cur_target
       THEN UNCHANGED <<_cur_target, pointing>>
       ELSE /\ _cur_target' = target
            /\ pointing' = target
    /\ last_telpos' =
          [called |-> TRUE,
           follows |-> /\ rot_gui_up
                       /\ follow_telescope
                       /\ lower(tel_state) \in {"tracking", "guiding"}
                       /\ target # None,
           target |-> target, before |-> pointing]
    /\ UNCHANGED <<rot_gui_up, follow_telescope, rot_dt_utc, cur_tz,
                   rot_limit_deg, tbl_dct, rot_tbl, time_str, fv_error,
                   last_calc, completed>>
    /\ UNCHANGED <<collVars, envVars, histVars, concVars, ltcsVars, ocsVars>>

NextFollow ==
    \/ \E time_utc \in RotTimes : \E tz \in TimeZones :
         RotBuildGui(time_utc, tz)
    \/ ToggleFollow
    \/ \E selected \in SUBSET Targets : GetSelected(selected)
    \/ \E tel_state \in TelStatuses : \E target \in TelTargets \cup {None} :
         telpos_changed_cb(tel_state, target)

SpecFollow == InitRotCalc /\ [][NextFollow]_vars

\* C23: a telescope-status change that reports tracking or guiding on a
\* target T, while the GUI is up and 'Follow telescope' is checked, leaves
\* the pointing fields showing T; any other telescope-status change leaves
\* the pointing fields as they were.
C23_FollowShowsTarget ==
    last_telpos.called =>
        IF last_telpos.follows
        THEN pointing = last_telpos.target
        ELSE pointing = last_telpos.before

\* C22: in the row of a completed calculation the chosen rotator angle and
\* the offset angle belong to the same candidate: they are solution 1's
\* start and offset, or solution 2's start and offset.
C22_OffsetOfChosen ==
    last_calc.done = "completed" =>
        LET row == last_calc.row[1]
            res == last_calc.res[1]
        IN  \E k \in 1..2 :
                /\ row.rot_chosen = Fmt1(res[k][1])
                /\ row.offset_angle = Fmt1(res[k][3])

\* ------------------------------------------------------------------------
\* Further properties of the snapshot
\* ------------------------------------------------------------------------
\* C24: in every snapshot of get_status, the first one and the one after
\* any sequence of polls, ok_collisions is True exactly when ltcs_status
\* is OPEN (0) or PREDICTED (2), and False when it is COLLISIONS (1),
\* DOWN (3) or ERROR (4).
C24_OkMatchesStatus ==
    /\ get_status(Self).ok_collisions
          <=> get_status(Self).ltcs_status \in {0, 2}
    /\ ~get_status(Self).ok_collisions
          <=> get_status(Self).ltcs_status \in {1, 3, 4}

\* a poll failed after one that had published PREDICTED: the attribute
\* ok_collisions is still True, the snapshot says ERROR and False
C24_Witness ==
    /\ last_outcome \in DbErrors
    /\ prev_status = 2
    /\ ok_collisions = TRUE
    /\ get_status(Self).ltcs_status = 4
    /\ get_status(Self).ok_collisions = FALSE

====
